---- MODULE Spec2Model ----
(***************************************************************************)
(* Model of the mySAPIEnS region-selection scripts:                        *)
(*   src/celltypist/cicero_filtering.py      (GraphExpander, MatrixReducer) *)
(*   src/celltypist/core_genes_and_regions.py (FeatureSelector,             *)
(*                                             IntervalMapper)             *)
(* Strings are sequences of one-character strings, so that str.strip,      *)
(* str.replace and sorted() are computed character by character.           *)
(***************************************************************************)
EXTENDS Integers, Sequences, FiniteSets, TLC

VARIABLES
    pc,                     \* position in the main() being modelled
    ret,                    \* exit status of main(): "none" while running
    coacc_thresh,           \* args.coacc_thresh
    out_dir_made,           \* os.makedirs(out_dir) has run
    core_peak_ids,          \* set of str
    files_left,             \* files of the glob not yet read by the loop
    selected_peak_ids,      \* set of str
    total_connections,
    core_connections,
    scanned,                \* history: every edge row read so far, as read
    out,                    \* files written into out_dir: name -> content
    all_peak_ids,           \* list of str
    idx,                    \* list of 0-based row positions
    mat,                    \* rows of matrix.mtx
    mat_core,               \* rows of the reduced matrix
    core_peak_ids_ordered,  \* list of str
    pool,                   \* re-batching: the edge rows of all files
    left,                   \* re-batching: positions of pool not yet read
    weights,                \* clf.coef_, one row per class
    top_n,
    cls,                    \* classes already handled by the selection loop
    top_genes_per_class,    \* list of sets of gene names
    rows,                   \* rows of the per-class table
    core_genes,             \* sorted list of gene names
    gtf_core,               \* annotation rows of the core genes
    tss,                    \* the "tss" column of gtf_core
    window,                 \* args.window
    bed_rows                \* list of BED records

cfVars == <<pc, ret, coacc_thresh, out_dir_made, core_peak_ids, files_left,
            selected_peak_ids, total_connections, core_connections, scanned,
            out, all_peak_ids, idx, mat, mat_core, core_peak_ids_ordered>>
rbVars == <<pool, left>>
fsVars == <<weights, top_n, cls, top_genes_per_class, rows, core_genes>>
imVars == <<gtf_core, tss, window, bed_rows>>
vars == <<cfVars, rbVars, fsVars, imVars>>

-----------------------------------------------------------------------------
(* Bounds of the model *)

MaxFiles == 2       \* peaks_chr*.csv files found by the glob
MaxIds == 3         \* lines of peaks.txt
MaxEdges == 3       \* edge rows in the re-batching experiment
MaxGenes == 2       \* columns of the weight matrix
MaxPos == 4         \* largest annotation coordinate
MaxWindow == 2      \* largest window

-----------------------------------------------------------------------------
(* Characters and strings *)

QUOTE == "\""
TAB == "\t"
UNDERSCORE == "_"
Whitespace == {" ", "\t", "\n"}

\* ord() of the characters the inputs use
CharCode(c) ==
    CASE c = "\t" -> 9
      [] c = "\n" -> 10
      [] c = " " -> 32
      [] c = "\"" -> 34
      [] c = "1" -> 49
      [] c = "2" -> 50
      [] c = "3" -> 51
      [] c = "4" -> 52
      [] c = "_" -> 95
      [] c = "a" -> 97
      [] c = "b" -> 98

RECURSIVE LStrip(_, _)
LStrip(s, chars) ==
    IF s # <<>> /\ Head(s) \in chars THEN LStrip(Tail(s), chars) ELSE s

RECURSIVE RStrip(_, _)
RStrip(s, chars) ==
    IF s # <<>> /\ s[Len(s)] \in chars
    THEN RStrip(SubSeq(s, 1, Len(s) - 1), chars)
    ELSE s

\* str.strip(): leading and trailing whitespace
StripWs(s) == RStrip(LStrip(s, Whitespace), Whitespace)

\* str.strip('"'): leading and trailing quote characters only
StripQuotes(s) == RStrip(LStrip(s, {QUOTE}), {QUOTE})

\* str.replace(old, new) for single characters: every occurrence
RECURSIVE ReplaceChar(_, _, _)
ReplaceChar(s, old, new) ==
    IF s = <<>> THEN <<>>
    ELSE (IF Head(s) = old THEN new ELSE <<Head(s)>>)
         \o ReplaceChar(Tail(s), old, new)

\* str.replace('"', ''): every quote character removed
RemoveQuotes(s) == ReplaceChar(s, QUOTE, <<>>)

\* s < t for Python str
RECURSIVE StrLess(_, _)
StrLess(s, t) ==
    IF t = <<>> THEN FALSE
    ELSE IF s = <<>> THEN TRUE
    ELSE IF Head(s) = Head(t) THEN StrLess(Tail(s), Tail(t))
    ELSE CharCode(Head(s)) < CharCode(Head(t))

\* sorted(S) for a set of str
RECURSIVE SortedStrs(_)
SortedStrs(S) ==
    IF S = {} THEN <<>>
    ELSE LET m == CHOOSE x \in S : \A y \in S \ {x} : StrLess(x, y)
         IN  <<m>> \o SortedStrs(S \ {m})

Range(s) == {s[i] : i \in 1..Len(s)}

SeqsUpTo(S, n) == UNION {[1..k -> S] : k \in 0..n}

-----------------------------------------------------------------------------
(* Inputs of cicero_filtering.py *)

P1 == <<"a", "_", "1", "_", "2">>
P2 == <<"a", "_", "3", "_", "4">>
P3 == <<"b", "_", "1", "_", "2">>
Quoted(s) == <<QUOTE>> \o s \o <<QUOTE>>

\* lines a core peaks file may hold
CoreLines == {P1, Quoted(P1) \o <<" ">>, P2, <<" ">>}
CoreFiles == SeqsUpTo(CoreLines, 2)

Scores == {1, 2}
Thresholds == {1, 2}

\* rows a peaks_chr*.csv file may hold
EdgeRows ==
    [Peak1 : {P1, Quoted(P2)}, Peak2 : {Quoted(P2), P3}, coaccess : Scores]
Batches == SeqsUpTo(EdgeRows, 2)

\* lines peaks.txt may hold
PeakLines == {P1, Quoted(P1), <<" ">> \o P2, P3, <<" ">>}

NoFiles == <<>>
WriteFile(dir, name, content) == (name :> content) @@ dir

-----------------------------------------------------------------------------
(* cicero_filtering.py, main(), lines 80-148: load the core, expand it *)

\* lines 93-96
ReadCore(lines) ==
    {StripQuotes(StripWs(lines[i])) :
        i \in {j \in 1..Len(lines) : StripWs(lines[j]) # <<>>}}

\* lines 121-122
NormalizeRow(r) ==
    [Peak1 |-> RemoveQuotes(r.Peak1), Peak2 |-> RemoveQuotes(r.Peak2),
     coaccess |-> r.coaccess]

NormalizeDf(df) == [i \in 1..Len(df) |-> NormalizeRow(df[i])]

\* line 125
ThresholdDf(df, thresh) == SelectSeq(df, LAMBDA r : r.coaccess >= thresh)

\* mutant: the seeds are the growing selected set
CoreMaskGrowing(r, core, sel) == r.Peak1 \in sel \/ r.Peak2 \in sel

\* lines 128-129: the seeds are core, whatever sel has grown to
CoreMask(r, core, sel) == r.Peak1 \in core \/ r.Peak2 \in core

CoreDf(df, core, sel) == SelectSeq(df, LAMBDA r : CoreMask(r, core, sel))

\* mutant: the selected set is replaced by the batch's endpoints
UpdateSelectedReplace(sel, df_core) ==
    {df_core[i].Peak1 : i \in 1..Len(df_core)}
        \cup {df_core[i].Peak2 : i \in 1..Len(df_core)}

\* lines 133-134
UpdateSelected(sel, df_core) ==
    sel \cup {df_core[i].Peak1 : i \in 1..Len(df_core)}
        \cup {df_core[i].Peak2 : i \in 1..Len(df_core)}

\* mutant: total_connections counts the files, not their rows
ProcessBatchCountsFiles(df, core, thresh, acc) ==
    LET df_thr == ThresholdDf(NormalizeDf(df), thresh)
        df_core == SelectSeq(df_thr,
                       LAMBDA r : r.Peak1 \in core \/ r.Peak2 \in core)
    IN  [selected |-> acc.selected
                        \cup {df_core[i].Peak1 : i \in 1..Len(df_core)}
                        \cup {df_core[i].Peak2 : i \in 1..Len(df_core)},
         total |-> acc.total + 1,
         core |-> acc.core + Len(df_core)]

\* lines 117-134: one iteration of the loop over the files
ProcessBatch(df, core, thresh, acc) ==
    LET df_thr == ThresholdDf(NormalizeDf(df), thresh)
        df_core == CoreDf(df_thr, core, acc.selected)
    IN  [selected |-> UpdateSelected(acc.selected, df_core),
         total |-> acc.total + Len(df),
         core |-> acc.core + Len(df_core)]

\* lines 111-134 over a list of files
RECURSIVE ExpandAll(_, _, _, _)
ExpandAll(files, core, thresh, acc) ==
    IF files = <<>> THEN acc
    ELSE ExpandAll(Tail(files), core, thresh,
                   ProcessBatch(Head(files), core, thresh, acc))

\* lines 111-114
StartAcc(core) == [selected |-> core, total |-> 0, core |-> 0]

Finish(code) == pc' = "done" /\ ret' = code

reduceVars == <<all_peak_ids, idx, mat, mat_core, core_peak_ids_ordered>>
otherVars == <<rbVars, fsVars, imVars>>
expandVars == <<core_peak_ids, files_left, selected_peak_ids,
                total_connections, core_connections, scanned>>

\* lines 81-84
CheckDirs ==
    /\ pc = "check_dirs"
    /\ \E filtered_isdir \in BOOLEAN, cicero_isdir \in BOOLEAN :
          IF filtered_isdir /\ cicero_isdir
          THEN pc' = "check_core" /\ ret' = ret
          ELSE Finish("2")
    /\ UNCHANGED <<coacc_thresh, out_dir_made, expandVars, out, reduceVars,
                   otherVars>>

\* lines 86-90
CheckCoreFile ==
    /\ pc = "check_core"
    /\ \E isfile \in BOOLEAN :
          IF isfile
          THEN pc' = "load_core" /\ ret' = ret /\ out_dir_made' = TRUE
          ELSE Finish("3") /\ out_dir_made' = out_dir_made
    /\ UNCHANGED <<coacc_thresh, expandVars, out, reduceVars,
                   otherVars>>

\* lines 93-98
LoadCore ==
    /\ pc = "load_core"
    /\ \E lines \in CoreFiles : core_peak_ids' = ReadCore(lines)
    /\ pc' = "glob"
    /\ UNCHANGED <<ret, coacc_thresh, out_dir_made, files_left,
                   selected_peak_ids, total_connections, core_connections,
                   scanned, out, reduceVars,
                   otherVars>>

\* lines 101-114
GlobFiles ==
    /\ pc = "glob"
    /\ \E n \in 0..MaxFiles :
          IF n = 0
          THEN /\ Finish("4")
               /\ UNCHANGED <<files_left, selected_peak_ids,
                              total_connections, core_connections>>
          ELSE /\ pc' = "loop" /\ ret' = ret
               /\ files_left' = n
               /\ selected_peak_ids' = StartAcc(core_peak_ids).selected
               /\ total_connections' = StartAcc(core_peak_ids).total
               /\ core_connections' = StartAcc(core_peak_ids).core
    /\ UNCHANGED <<coacc_thresh, out_dir_made, core_peak_ids, scanned, out,
                   reduceVars,
                   otherVars>>

\* lines 116-134, one file
ProcessFile ==
    /\ pc = "loop"
    /\ files_left > 0
    /\ \E df \in Batches :
          LET acc == ProcessBatch(df, core_peak_ids, coacc_thresh,
                        [selected |-> selected_peak_ids,
                         total |-> total_connections,
                         core |-> core_connections])
          IN  /\ selected_peak_ids' = acc.selected
              /\ total_connections' = acc.total
              /\ core_connections' = acc.core
              /\ scanned' = scanned \cup Range(df)
    /\ files_left' = files_left - 1
    /\ pc' = IF files_left = 1 THEN "save_selected" ELSE "loop"
    /\ UNCHANGED <<ret, coacc_thresh, out_dir_made, core_peak_ids, out,
                   reduceVars,
                   otherVars>>

\* lines 144-148
SaveSelected ==
    /\ pc = "save_selected"
    /\ out' = WriteFile(out, "selected_peaks.txt", SortedStrs(selected_peak_ids))
    /\ pc' = "check_peaks"
    /\ UNCHANGED <<ret, coacc_thresh, out_dir_made, expandVars, reduceVars,
                   otherVars>>

IdleSelect ==
    /\ weights = <<>> /\ top_n = 0 /\ cls = 0
    /\ top_genes_per_class = <<>> /\ rows = <<>> /\ core_genes = <<>>

IdleMap == gtf_core = <<>> /\ tss = <<>> /\ window = 0 /\ bed_rows = <<>>

IdleRebatch == pool = <<>> /\ left = {}

IdleOthers == IdleRebatch /\ IdleSelect /\ IdleMap

\* state at line 80, after parse_args
InitExpand ==
    /\ pc = "check_dirs" /\ ret = "none"
    /\ coacc_thresh \in Thresholds
    /\ out_dir_made = FALSE
    /\ core_peak_ids = {} /\ files_left = 0 /\ selected_peak_ids = {}
    /\ total_connections = 0 /\ core_connections = 0 /\ scanned = {}
    /\ out = NoFiles
    /\ all_peak_ids = <<>> /\ idx = <<>> /\ mat = <<>> /\ mat_core = <<>>
    /\ core_peak_ids_ordered = <<>>
    /\ IdleOthers

NextExpand ==
    \/ CheckDirs
    \/ CheckCoreFile
    \/ LoadCore
    \/ GlobFiles
    \/ ProcessFile
    \/ SaveSelected

SpecExpand == InitExpand /\ [][NextExpand]_vars

-----------------------------------------------------------------------------
(* cicero_filtering.py, main(), lines 143-200: reduce the matrix *)

\* barcodes.tsv of the cicero directory
Barcodes == <<"bc1", "bc2">>

\* matrices matrix.mtx may hold for r peaks: row i is <<i, c>>
Matrices(r) == {[i \in 1..r |-> <<i, c>>] : c \in {0, 1}}

\* lines 156-157: peaks.txt is stripped of whitespace only
ReadPeaks(lines) ==
    LET kept == SelectSeq(lines, LAMBDA l : StripWs(l) # <<>>)
    IN  [i \in 1..Len(kept) |-> StripWs(kept[i])]

\* mutant: the positions are collected in the order of sorted(target)
KeptPositionsByTarget(all_ids, target) ==
    LET t == SortedStrs(target)
        G[k \in 0..Len(t)] ==
            IF k = 0 THEN <<>>
            ELSE G[k - 1] \o
                 SelectSeq([i \in 1..Len(all_ids) |-> i - 1],
                           LAMBDA i : all_ids[i + 1] = t[k])
    IN  G[Len(t)]

\* line 161: 0-based positions, in the order of all_ids
KeptPositions(all_ids, target) ==
    LET F[k \in 0..Len(all_ids)] ==
            IF k = 0 THEN <<>>
            ELSE IF all_ids[k] \in target THEN Append(F[k - 1], k - 1)
            ELSE F[k - 1]
    IN  F[Len(all_ids)]

\* line 178: mat[idx, :]
TakeRows(m, positions) == [k \in 1..Len(positions) |-> m[positions[k] + 1]]

\* line 182
OrderedIds(all_ids, positions) ==
    [k \in 1..Len(positions) |-> all_ids[positions[k] + 1]]

\* line 190
BedLine(pid) == ReplaceChar(pid, UNDERSCORE, <<TAB>>)

BedLines(ids) == [k \in 1..Len(ids) |-> BedLine(ids[k])]

\* lines 151-154
CheckPeaksFile ==
    /\ pc = "check_peaks"
    /\ \E isfile \in BOOLEAN :
          IF isfile THEN pc' = "load_peaks" /\ ret' = ret ELSE Finish("5")
    /\ UNCHANGED <<coacc_thresh, out_dir_made, expandVars, out, reduceVars,
                   otherVars>>

\* mutant: a single retained peak is rejected too
NoOverlapSingle(positions) == Len(positions) <= 1

\* line 162: "if not idx"
NoOverlap(positions) == positions = <<>>

\* lines 156-168
LoadPeaks ==
    /\ pc = "load_peaks"
    /\ \E lines \in SeqsUpTo(PeakLines, MaxIds) :
          /\ all_peak_ids' = ReadPeaks(lines)
          /\ idx' = KeptPositions(ReadPeaks(lines), selected_peak_ids)
    /\ IF NoOverlap(idx')
       THEN Finish("RuntimeError")
       ELSE pc' = "check_matrix" /\ ret' = ret
    /\ UNCHANGED <<coacc_thresh, out_dir_made, expandVars, out, mat, mat_core,
                   core_peak_ids_ordered, otherVars>>

\* lines 170-173
CheckMatrix ==
    /\ pc = "check_matrix"
    /\ \E isfile \in BOOLEAN :
          IF isfile THEN pc' = "read_matrix" /\ ret' = ret ELSE Finish("6")
    /\ UNCHANGED <<coacc_thresh, out_dir_made, expandVars, out, reduceVars,
                   otherVars>>

\* lines 175-182
ReadMatrix ==
    /\ pc = "read_matrix"
    /\ \E m \in Matrices(Len(all_peak_ids)) :
          /\ mat' = m
          /\ mat_core' = TakeRows(m, idx)
    /\ core_peak_ids_ordered' = OrderedIds(all_peak_ids, idx)
    /\ pc' = "write_peaks"
    /\ UNCHANGED <<ret, coacc_thresh, out_dir_made, expandVars, out,
                   all_peak_ids, idx, otherVars>>

\* lines 184-190
WritePeaks ==
    /\ pc = "write_peaks"
    /\ out' = WriteFile(WriteFile(out, "peaks.txt", core_peak_ids_ordered),
                        "peaks.bed", BedLines(core_peak_ids_ordered))
    /\ pc' = "copy_barcodes"
    /\ UNCHANGED <<ret, coacc_thresh, out_dir_made, expandVars, reduceVars,
                   otherVars>>

\* lines 192-195: shutil.copy raises when the source is missing
CopyBarcodes ==
    /\ pc = "copy_barcodes"
    /\ \E isfile \in BOOLEAN :
          IF isfile
          THEN /\ out' = WriteFile(out, "barcodes.tsv", Barcodes)
               /\ pc' = "write_matrix" /\ ret' = ret
          ELSE Finish("FileNotFoundError") /\ out' = out
    /\ UNCHANGED <<coacc_thresh, out_dir_made, expandVars, reduceVars,
                   otherVars>>

\* lines 197-200
WriteMatrix ==
    /\ pc = "write_matrix"
    /\ out' = WriteFile(out, "matrix.mtx", mat_core)
    /\ Finish("0")
    /\ UNCHANGED <<coacc_thresh, out_dir_made, expandVars, reduceVars,
                   otherVars>>

\* state at line 143: the loop of lines 116-134 has read one file
InitReduce ==
    /\ pc = "save_selected" /\ ret = "none"
    /\ coacc_thresh \in Thresholds
    /\ out_dir_made = TRUE
    /\ \E lines \in CoreFiles, df \in SeqsUpTo(EdgeRows, 1) :
          LET core == ReadCore(lines)
              acc == ExpandAll(<<df>>, core, coacc_thresh, StartAcc(core))
          IN  /\ core_peak_ids = core
              /\ selected_peak_ids = acc.selected
              /\ total_connections = acc.total
              /\ core_connections = acc.core
              /\ scanned = Range(df)
    /\ files_left = 0
    /\ out = NoFiles
    /\ all_peak_ids = <<>> /\ idx = <<>> /\ mat = <<>> /\ mat_core = <<>>
    /\ core_peak_ids_ordered = <<>>
    /\ IdleOthers

NextReduce ==
    \/ SaveSelected
    \/ CheckPeaksFile
    \/ LoadPeaks
    \/ CheckMatrix
    \/ ReadMatrix
    \/ WritePeaks
    \/ CopyBarcodes
    \/ WriteMatrix

SpecReduce == InitReduce /\ [][NextReduce]_vars

-----------------------------------------------------------------------------
(* Re-batching: lines 111-134 over the same edge rows, split into files     *)
(* in any way and read in any order                                        *)

Injections(S) ==
    {f \in [1..Cardinality(S) -> S] : \A i, j \in 1..Cardinality(S) :
        f[i] = f[j] => i = j}

\* the multisets of at most MaxEdges rows, each listed in one fixed order
RowRank(r) ==
    (IF r.Peak1 = P1 THEN 0 ELSE 4) + (IF r.Peak2 = P3 THEN 0 ELSE 2)
        + (r.coaccess - 1)

SortedPools ==
    {s \in SeqsUpTo(EdgeRows, MaxEdges) :
        \A i \in 1..(Len(s) - 1) : RowRank(s[i]) <= RowRank(s[i + 1])}

\* lines 116-134 for a file holding the rows of pool at the positions order
RebatchFile ==
    /\ pc = "rebatch"
    /\ \E S \in SUBSET left : \E order \in Injections(S) :
          LET df == [k \in 1..Len(order) |-> pool[order[k]]]
              acc == ProcessBatch(df, core_peak_ids, coacc_thresh,
                        [selected |-> selected_peak_ids,
                         total |-> total_connections,
                         core |-> core_connections])
          IN  /\ S # {}
              /\ selected_peak_ids' = acc.selected
              /\ total_connections' = acc.total
              /\ core_connections' = acc.core
              /\ scanned' = scanned \cup Range(df)
              /\ left' = left \ S
    /\ UNCHANGED <<pc, ret, coacc_thresh, out_dir_made, core_peak_ids,
                   files_left, out, reduceVars, pool, fsVars, imVars>>

\* state at line 116, with the rows of all the files in pool
InitRebatch ==
    /\ pc = "rebatch" /\ ret = "none"
    /\ coacc_thresh \in Thresholds
    /\ out_dir_made = TRUE
    /\ \E lines \in CoreFiles : core_peak_ids = ReadCore(lines)
    /\ selected_peak_ids = StartAcc(core_peak_ids).selected
    /\ total_connections = StartAcc(core_peak_ids).total
    /\ core_connections = StartAcc(core_peak_ids).core
    /\ scanned = {}
    /\ files_left = 0
    /\ out = NoFiles
    /\ all_peak_ids = <<>> /\ idx = <<>> /\ mat = <<>> /\ mat_core = <<>>
    /\ core_peak_ids_ordered = <<>>
    /\ pool \in SortedPools
    /\ left = 1..Len(pool)
    /\ IdleSelect /\ IdleMap

NextRebatch == RebatchFile

SpecRebatch == InitRebatch /\ [][NextRebatch]_vars

-----------------------------------------------------------------------------
(* core_genes_and_regions.py, main(), lines 127-179: top-N genes per class *)

IdleCicero ==
    /\ coacc_thresh = 0 /\ out_dir_made = TRUE
    /\ core_peak_ids = {} /\ files_left = 0 /\ selected_peak_ids = {}
    /\ total_connections = 0 /\ core_connections = 0 /\ scanned = {}
    /\ all_peak_ids = <<>> /\ idx = <<>> /\ mat = <<>> /\ mat_core = <<>>
    /\ core_peak_ids_ordered = <<>>

ciceroVars == <<coacc_thresh, out_dir_made, expandVars, reduceVars>>

\* clf.features and clf.classes_
GeneNames == <<"g1", "g2", "g3", "g4">>
ClassNames == <<"ct1", "ct2">>

\* values of clf.coef_ (scaled to integers)
WeightValues == {-2, 1, 2}

Abs(x) == IF x < 0 THEN -x ELSE x

\* mutant: the sign is kept
AbsWeightsSigned(w) == w

\* line 154: np.abs(class_weights)
AbsWeights(w) == [j \in 1..Len(w) |-> Abs(w[j])]

\* line 154: np.argsort(a), 0-based. The default sort is not stable: equal
\* keys come out in any order.
ArgSorts(a) ==
    {p \in [1..Len(a) -> 0..(Len(a) - 1)] :
        /\ \A i, j \in 1..Len(a) : p[i] = p[j] => i = j
        /\ \A i \in 1..(Len(a) - 1) : a[p[i] + 1] <= a[p[i + 1] + 1]}

\* [::-1]
Reversed(s) == [i \in 1..Len(s) |-> s[Len(s) + 1 - i]]

\* line 155: idx_sorted[:top_n]
FirstN(s, n) == SubSeq(s, 1, IF n < Len(s) THEN n ELSE Len(s))

\* line 172: sorted(); the names g1..g4 sort as their positions do
SortedGenes(S) ==
    SelectSeq(GeneNames, LAMBDA g : g \in S)

\* lines 140-145
CheckTopN ==
    /\ pc = "fs_check_top_n"
    /\ IF top_n <= 0
       THEN Finish("7") /\ top_n' = top_n
       ELSE /\ pc' = "fs_select" /\ ret' = ret
            /\ top_n' = IF top_n > Len(weights[1]) THEN Len(weights[1])
                        ELSE top_n
    /\ UNCHANGED <<weights, cls, top_genes_per_class, rows, core_genes, out,
                   ciceroVars, rbVars, imVars>>

\* lines 152-170, one class
SelectClass ==
    /\ pc = "fs_select"
    /\ cls < Len(weights)
    /\ LET class_weights == weights[cls + 1]
       IN  \E order \in ArgSorts(AbsWeights(class_weights)) :
              LET idx_top == FirstN(Reversed(order), top_n)
              IN  /\ top_genes_per_class' =
                        Append(top_genes_per_class,
                               {GeneNames[idx_top[k] + 1] :
                                   k \in 1..Len(idx_top)})
                  /\ rows' = rows \o
                        [k \in 1..Len(idx_top) |->
                            [cell_type |-> ClassNames[cls + 1],
                             gene |-> GeneNames[idx_top[k] + 1],
                             weight |-> class_weights[idx_top[k] + 1],
                             abs_weight |->
                                 Abs(class_weights[idx_top[k] + 1])]]
    /\ cls' = cls + 1
    /\ pc' = IF cls + 1 = Len(weights) THEN "fs_core" ELSE "fs_select"
    /\ UNCHANGED <<ret, weights, top_n, core_genes, out, ciceroVars, rbVars,
                   imVars>>

\* lines 172-179
BuildCoreGenes ==
    /\ pc = "fs_core"
    /\ core_genes' = SortedGenes(UNION Range(top_genes_per_class))
    /\ out' = WriteFile(out, "celltypist_core_genes.txt", core_genes')
    /\ pc' = "fs_table"
    /\ UNCHANGED <<ret, weights, top_n, cls, top_genes_per_class, rows,
                   ciceroVars, rbVars, imVars>>

\* state at line 140: the shapes of coef_, features and classes_ agree
InitSelect ==
    /\ pc = "fs_check_top_n" /\ ret = "none"
    /\ out = NoFiles
    /\ \E c \in 1..Len(ClassNames), f \in 1..MaxGenes :
          weights \in [1..c -> [1..f -> WeightValues]]
    /\ top_n \in 0..(MaxGenes + 1)
    /\ cls = 0 /\ top_genes_per_class = <<>> /\ rows = <<>>
    /\ core_genes = <<>>
    /\ IdleCicero /\ IdleRebatch /\ IdleMap

NextSelect ==
    \/ CheckTopN
    \/ SelectClass
    \/ BuildCoreGenes

SpecSelect == InitSelect /\ [][NextSelect]_vars

-----------------------------------------------------------------------------
(* core_genes_and_regions.py, main(), lines 228-250: BED windows *)

\* "gene" rows of the annotation that name a core gene (1-based, inclusive)
GtfRows ==
    {r \in [chr : {"chr1"}, start : 1..MaxPos, end : 1..MaxPos,
            strand : {"+", "-"}, gene_name : {"g1"}] : r.start <= r.end}

Max(a, b) == IF a >= b THEN a ELSE b

\* lines 229-230
TssRow(row) == IF row.strand = "+" THEN row.start ELSE row.end

\* mutant: the 1-based position is not shifted to 0-based
BedStartUnshifted(t, w) == Max(0, t - w)

\* line 240
BedStart(t, w) == Max(0, t - 1 - w)

\* line 241
BedEnd(t, w) == t + w

\* line 232
ComputeTss ==
    /\ pc = "im_tss"
    /\ tss' = [i \in 1..Len(gtf_core) |-> TssRow(gtf_core[i])]
    /\ pc' = "im_bed"
    /\ UNCHANGED <<ret, out, gtf_core, window, bed_rows, ciceroVars, rbVars,
                   fsVars>>

\* lines 236-250, one row
BuildBedRow ==
    /\ pc = "im_bed"
    /\ Len(bed_rows) < Len(gtf_core)
    /\ LET i == Len(bed_rows) + 1
           r == gtf_core[i]
       IN  bed_rows' = Append(bed_rows,
                [chr |-> r.chr,
                 start |-> BedStart(tss[i], window),
                 end |-> BedEnd(tss[i], window),
                 name |-> r.gene_name,
                 strand |-> r.strand])
    /\ pc' = IF Len(bed_rows) + 1 = Len(gtf_core) THEN "im_save" ELSE "im_bed"
    /\ UNCHANGED <<ret, out, gtf_core, tss, window, ciceroVars, rbVars,
                   fsVars>>

\* state at line 228: at least one core gene was found in the annotation
InitMap ==
    /\ pc = "im_tss" /\ ret = "none"
    /\ out = NoFiles
    /\ gtf_core \in SeqsUpTo(GtfRows, 2) \ {<<>>}
    /\ window \in 0..MaxWindow
    /\ tss = <<>> /\ bed_rows = <<>>
    /\ IdleCicero /\ IdleRebatch /\ IdleSelect

NextMap ==
    \/ ComputeTss
    \/ BuildBedRow

SpecMap == InitMap /\ [][NextMap]_vars

-----------------------------------------------------------------------------
(* Properties of cicero_filtering.py *)

\* an identifier with every quote character removed
Unquoted(s) == SelectSeq(s, LAMBDA c : c # QUOTE)

\* idx has been computed (line 161 has run)
IdxDone ==
    \/ pc \in {"check_matrix", "read_matrix", "write_peaks", "copy_barcodes",
               "write_matrix"}
    \/ pc = "done" /\ ret \in {"RuntimeError", "6", "FileNotFoundError", "0"}

\* the reduced matrix has been computed (line 182 has run)
ReduceDone ==
    \/ pc \in {"write_peaks", "copy_barcodes", "write_matrix"}
    \/ pc = "done" /\ ret \in {"FileNotFoundError", "0"}

Written(name) == name \in DOMAIN out

\* C1: kept_positions is the strictly ascending sequence of all positions i of
\* all_ids with all_ids[i] in target; the reduced matrix, the ordered
\* identifier list and the BED rendering all follow it row for row.
C1_ReduceConsistent ==
    /\ (IdxDone /\ ret # "RuntimeError") =>
          /\ \A k \in 1..(Len(idx) - 1) : idx[k] < idx[k + 1]
          /\ Range(idx) =
                {i \in 0..(Len(all_peak_ids) - 1) :
                    all_peak_ids[i + 1] \in selected_peak_ids}
    /\ ReduceDone =>
          /\ Len(mat) = Len(all_peak_ids)
          /\ Len(idx) = Len(mat_core)
          /\ Len(idx) = Len(core_peak_ids_ordered)
          /\ \A k \in 1..Len(idx) :
                /\ core_peak_ids_ordered[k] = all_peak_ids[idx[k] + 1]
                /\ mat_core[k] = mat[idx[k] + 1]
    /\ Written("peaks.txt") => out["peaks.txt"] = core_peak_ids_ordered
    /\ Written("matrix.mtx") => out["matrix.mtx"] = mat_core
    /\ Written("peaks.bed") =>
          /\ Len(out["peaks.bed"]) = Len(core_peak_ids_ordered)
          /\ \A k \in 1..Len(core_peak_ids_ordered) :
                LET id == core_peak_ids_ordered[k]
                    line == out["peaks.bed"][k]
                IN  /\ Len(line) = Len(id)
                    /\ \A j \in 1..Len(id) :
                          line[j] = IF id[j] = UNDERSCORE THEN TAB ELSE id[j]

\* C1 witness: all_ids = [P1, P2, P3] and target = {P2, P3} give [1, 2], and
\* every output has been written
C1_Witness ==
    /\ pc = "done" /\ ret = "0"
    /\ all_peak_ids = <<P1, P2, P3>>
    /\ selected_peak_ids = {P2, P3}
    /\ idx = <<1, 2>>
    /\ out["peaks.txt"] = <<P2, P3>>

\* the edge loop has started (line 116 reached)
InLoop == pc \in {"loop", "save_selected", "check_peaks"}

\* the endpoints of the rows read so far that qualify against the core
OneHop(core, edges, thresh) ==
    UNION {{Unquoted(r.Peak1), Unquoted(r.Peak2)} :
              r \in {e \in edges :
                        /\ e.coaccess >= thresh
                        /\ (Unquoted(e.Peak1) \in core
                              \/ Unquoted(e.Peak2) \in core)}}

\* C2: with a non-empty core, the selected set is the core plus the endpoints
\* of the edges read whose score is at least the threshold and that touch the
\* original core; nothing else is ever added.
C2_OneHop ==
    (InLoop /\ core_peak_ids # {}) =>
        selected_peak_ids =
            core_peak_ids \cup OneHop(core_peak_ids, scanned, coacc_thresh)

\* C2 witness: P2 was added through the core region P1, and the edge P2-P3,
\* above threshold, added nothing
C2_Witness ==
    /\ pc = "save_selected"
    /\ core_peak_ids = {P1}
    /\ coacc_thresh = 1
    /\ [Peak1 |-> P1, Peak2 |-> Quoted(P2), coaccess |-> 1] \in scanned
    /\ [Peak1 |-> Quoted(P2), Peak2 |-> P3, coaccess |-> 2] \in scanned
    /\ selected_peak_ids = {P1, P2}

\* C3: selected starts as the core, never shrinks while the files are read,
\* always contains the core, and the core is not changed by any file.
C3_SelectedGrows ==
    /\ [](InLoop => core_peak_ids \subseteq selected_peak_ids)
    /\ [][(pc = "glob" /\ pc' = "loop") =>
            selected_peak_ids' = core_peak_ids]_vars
    /\ [][pc = "loop" =>
            /\ selected_peak_ids \subseteq selected_peak_ids'
            /\ core_peak_ids' = core_peak_ids]_vars

\* C3 witness: a second file is about to be read and selected has outgrown
\* the core
C3_Witness ==
    /\ pc = "loop"
    /\ scanned # {}
    /\ core_peak_ids # {}
    /\ selected_peak_ids # core_peak_ids

\* C4 as claimed: with an empty core the run is rejected: it reads no edge
\* row, writes no selected list and does not go on to the matrix reduction.
C4_EmptyCoreRejected ==
    (core_peak_ids = {} /\ InLoop) =>
        /\ scanned = {}
        /\ ~Written("selected_peaks.txt")
        /\ pc # "check_peaks"

\* C5 as claimed: a row of all_ids whose identifier, quotes removed, is in the
\* selected set is kept by the reducer.
C5_QuotedRowsKept ==
    IdxDone =>
        \A i \in 1..Len(all_peak_ids) :
            Unquoted(all_peak_ids[i]) \in selected_peak_ids =>
                (i - 1) \in Range(idx)

\* C6 as claimed: a run that ends in a failure has written no output file.
C6_NoOutputOnFailure ==
    (pc = "done" /\ ret # "0") => DOMAIN out = {}

\* C10: the reducer fails with NoOverlap exactly when no identifier of all_ids
\* is in the target set, and then produces no reduced matrix, no identifier
\* list and no BED rendering.
C10_NoOverlap ==
    IdxDone =>
        /\ (ret = "RuntimeError") =
              (\A i \in 1..Len(all_peak_ids) :
                  all_peak_ids[i] \notin selected_peak_ids)
        /\ ret = "RuntimeError" =>
              /\ pc = "done"
              /\ mat_core = <<>>
              /\ core_peak_ids_ordered = <<>>
              /\ ~Written("peaks.txt")
              /\ ~Written("peaks.bed")
              /\ ~Written("matrix.mtx")

\* C10 witness: peaks.txt has identifiers, the target is not empty, none
\* matches, and the run has failed
C10_Witness ==
    /\ pc = "done" /\ ret = "RuntimeError"
    /\ all_peak_ids # <<>>
    /\ selected_peak_ids # {}

\* C9: however the edge rows are split into files and ordered, the selected
\* set and both counters end as they do when one file holds them all.
C9_BatchInsensitive ==
    (pc = "rebatch" /\ left = {}) =>
        [selected |-> selected_peak_ids,
         total |-> total_connections,
         core |-> core_connections]
            = ExpandAll(<<pool>>, core_peak_ids, coacc_thresh,
                        StartAcc(core_peak_ids))

\* C9 witness: three rows were read in files, the last of them a chain
\* P1-P2, P2-P3 that a multi-hop expansion would follow
C9_Witness ==
    /\ pc = "rebatch" /\ left = {}
    /\ Len(pool) >= 2
    /\ core_peak_ids = {P1}
    /\ selected_peak_ids = {P1, P2}
    /\ total_connections = Len(pool)
    /\ \E i \in 1..Len(pool) :
          /\ pool[i].Peak1 = Quoted(P2) /\ pool[i].Peak2 = P3
          /\ pool[i].coaccess >= coacc_thresh

-----------------------------------------------------------------------------
(* Properties of core_genes_and_regions.py *)

\* the 0-based feature indices a stable descending sort by |weight| puts first
StableTop(w, n) ==
    {j \in 0..(Len(w) - 1) :
        Cardinality({k \in 0..(Len(w) - 1) :
            \/ Abs(w[k + 1]) > Abs(w[j + 1])
            \/ Abs(w[k + 1]) = Abs(w[j + 1]) /\ k < j}) < n}

NamesOf(S) == {GeneNames[j + 1] : j \in S}

C8_Interval ==
    \A i \in 1..Len(bed_rows) :
        LET g == gtf_core[i]
            p == IF g.strand = "+" THEN g.start ELSE g.end
            b == bed_rows[i]
        IN  (p >= 1 /\ window >= 0) =>
               /\ b.start = (IF p - 1 - window >= 0 THEN p - 1 - window ELSE 0)
               /\ b.end = p + window
               /\ b.start >= 0
               /\ b.start < b.end
               /\ b.end - b.start <= 2 * window + 1
               /\ (b.end - b.start = 2 * window + 1) = (p - 1 - window >= 0)

\* C8 witness: one interval clamped at the left edge, one of full length on
\* the other strand
C8_Witness ==
    /\ pc = "im_save"
    /\ window = 2
    /\ Len(bed_rows) = 2
    /\ gtf_core[1].strand = "+" /\ gtf_core[2].strand = "-"
    /\ gtf_core[1].start # gtf_core[1].end
    /\ gtf_core[2].start # gtf_core[2].end
    /\ bed_rows[1].start = 0 /\ bed_rows[1].end - bed_rows[1].start < 5
    /\ bed_rows[2].start > 0 /\ bed_rows[2].end - bed_rows[2].start = 5

====
